---------------------------- MODULE Spec2Model ----------------------------
(***************************************************************************)
(* Model of packages/rest/src/body-parser.ts (@loopback/rest):             *)
(* RequestBodyParser, its constructor, getParserOptions and                *)
(* loadRequestBodyIfNeeded.                                                *)
(*                                                                         *)
(* JavaScript strings are sequences of tokens.  The tokens "/", "*", "+"   *)
(* and ";" are the characters themselves; every other token is a run of    *)
(* characters containing none of these four, so split('/'), indexOf('*'),  *)
(* substr on a "*+" prefix and suffix comparison act on tokens exactly as  *)
(* they act on characters.  The empty sequence stands for every falsy      *)
(* string-or-false value of the code (false, undefined, null, '').         *)
(*                                                                         *)
(* JavaScript objects are functions from property names to values.         *)
(***************************************************************************)
EXTENDS Integers, Sequences, FiniteSets, TLC

(***************************************************************************)
(* Bounds of the model.                                                    *)
(***************************************************************************)
\* longest declared content map (operationSpec.requestBody.content)
MaxContent == 2
\* most externally supplied parser entries given to the constructor
MaxCustom == 1

(***************************************************************************)
(* Strings.                                                                *)
(***************************************************************************)
false == << >>

Range(s) == {s[i] : i \in 1..Len(s)}

\* String.prototype.indexOf for a one-token needle; 0 stands for -1
IndexOf(s, tok) ==
  IF tok \in Range(s)
    THEN CHOOSE i \in 1..Len(s) : s[i] = tok /\ \A j \in 1..(i - 1) : s[j] # tok
    ELSE 0

\* s.substr(1 - n) for n >= 1 : the last n - 1 tokens, or all of s when shorter
SubstrFromEnd(s, n) ==
  IF Len(s) <= n - 1 THEN s ELSE SubSeq(s, Len(s) - (n - 1) + 1, Len(s))

\* s.split('/') as the pair of parts when there are exactly two, else false
SplitSlash(s) ==
  LET k == IndexOf(s, "/") IN
  IF k = 0 THEN false
  ELSE LET rest == SubSeq(s, k + 1, Len(s)) IN
       IF "/" \in Range(rest) THEN false
       ELSE << SubSeq(s, 1, k - 1), rest >>

Special == {"/", "*", "+", ";"}

ApplicationJson == << "application", "/", "json" >>
ApplicationJsonCharset == << "application", "/", "json", ";", " charset=utf-8" >>
ApplicationVndJson == << "application", "/", "vnd.api", "+", "json" >>
ApplicationUrlencoded == << "application", "/", "x-www-form-urlencoded" >>
ApplicationXml == << "application", "/", "xml" >>
TextPlain == << "text", "/", "plain" >>
TextAny == << "text", "/", "*" >>
ApplicationAnyJson == << "application", "/", "*", "+", "json" >>
AnyAny == << "*", "/", "*" >>

(***************************************************************************)
(* The matcher: is() of the type-is package, imported at line 23 and       *)
(* called at lines 167, 172, 177 and 240 with one pattern argument.        *)
(***************************************************************************)
\* media-typer's grammar: name "/" name ("+" name)*, no wildcard
ValidSubtype(p) ==
  /\ Len(p) >= 1
  /\ Len(p) % 2 = 1
  /\ \A i \in 1..Len(p) : IF i % 2 = 1 THEN p[i] \notin Special ELSE p[i] = "+"

\* tryNormalizeType: drop the parameters; false when the value is no media type
tryNormalizeType(value) ==
  IF value = false THEN false
  ELSE LET semi  == IndexOf(value, ";")
           type  == IF semi = 0 THEN value ELSE SubSeq(value, 1, semi - 1)
           parts == SplitSlash(type)
       IN IF parts = false THEN false
          ELSE IF Len(parts[1]) = 1 /\ parts[1][1] \notin Special /\ ValidSubtype(parts[2])
                 THEN type
                 ELSE false

\* mime.lookup of an extension
MimeLookup(type) ==
  IF type = << "json" >> THEN ApplicationJson
  ELSE IF type = << "txt" >> THEN TextPlain
  ELSE false

\* normalize: expand a shorthand pattern
normalize(type) ==
  IF type = << "urlencoded" >> THEN ApplicationUrlencoded
  ELSE IF type = << "multipart" >> THEN << "multipart", "/", "*" >>
  ELSE IF Len(type) > 0 /\ type[1] = "+" THEN << "*", "/", "*" >> \o type
  ELSE IF IndexOf(type, "/") = 0 THEN MimeLookup(type)
  ELSE type

mimeMatch(expected, actual) ==
  IF expected = false THEN FALSE
  ELSE LET actualParts   == SplitSlash(actual)
           expectedParts == SplitSlash(expected)
       IN IF actualParts = false \/ expectedParts = false THEN FALSE
          ELSE IF expectedParts[1] # << "*" >> /\ expectedParts[1] # actualParts[1] THEN FALSE
          ELSE IF Len(expectedParts[2]) >= 2 /\ SubSeq(expectedParts[2], 1, 2) = << "*", "+" >>
                 THEN /\ Len(expectedParts[2]) <= Len(actualParts[2]) + 1
                      /\ SubSeq(expectedParts[2], 2, Len(expectedParts[2]))
                           = SubstrFromEnd(actualParts[2], Len(expectedParts[2]))
          ELSE IF expectedParts[2] # << "*" >> /\ expectedParts[2] # actualParts[2] THEN FALSE
          ELSE TRUE

\* is(value, type): the pattern when it matches and has no wildcard, the
\* normalized value when it matches and has one, false when it does not match
is(value, type) ==
  LET val == tryNormalizeType(value) IN
  IF val = false THEN false
  ELSE IF mimeMatch(normalize(type), val)
         THEN IF type[1] = "+" \/ "*" \in Range(type) THEN val ELSE type
         ELSE false

(***************************************************************************)
(* Objects.                                                                *)
(***************************************************************************)
EmptyObj == [k \in {} |-> TRUE]

\* obj[key], with an absent property read as an object without properties
\* (Object.assign skips an undefined source)
Prop(obj, key) == IF key \in DOMAIN obj THEN obj[key] ELSE EmptyObj

\* an assign in which the properties of the target win
ObjectAssignKeep(target, source) ==
  [k \in DOMAIN target \cup DOMAIN source |->
     IF k \in DOMAIN target THEN target[k] ELSE source[k]]

\* Object.assign(target, source)
ObjectAssign(target, source) ==
  [k \in DOMAIN target \cup DOMAIN source |->
     IF k \in DOMAIN source THEN source[k] ELSE target[k]]

\* delete obj[k] for every k of keys
Delete(obj, keys) == [k \in DOMAIN obj \ keys |-> obj[k]]

(***************************************************************************)
(* Option resolver.                                                        *)
(***************************************************************************)
DEFAULT_LIMIT == "1mb"

FormatKeys == {"json", "urlencoded", "text"}

\* getParserOptions without the loop of lines 99-101
getParserOptionsNoDelete(type, options) ==
  ObjectAssign(ObjectAssign(EmptyObj, Prop(options, type)), options)

\* lines 93-103
getParserOptions(type, options) ==
  LET opts == ObjectAssign(ObjectAssign(EmptyObj, Prop(options, type)), options)
  IN Delete(opts, FormatKeys)

\* the options argument of the constructor: with or without a shared limit,
\* with or without sub-objects for the json and the text format
SharedOptions == {EmptyObj, "limit" :> "2mb"}

FormatOptions ==
  {EmptyObj,
   ("json" :> (("limit" :> "5mb") @@ ("strict" :> FALSE)))
     @@ ("text" :> (("limit" :> "9mb") @@ ("defaultCharset" :> "latin1")))}

OptionsInputs == {ObjectAssign(sh, f) : sh \in SharedOptions, f \in FormatOptions}

(***************************************************************************)
(* Parser entries.  An entry is named; the behaviour of supports and parse *)
(* of the externally supplied entries is given by the operators below.     *)
(***************************************************************************)
BuiltinEntries ==
  << [name |-> "json", builtin |-> TRUE],
     [name |-> "urlencoded", builtin |-> TRUE],
     [name |-> "text", builtin |-> TRUE] >>

\* implementations of the BodyParser interface handed to the constructor:
\*   myjson   claims the json family, returns {value}
\*   xml      claims application/xml, returns {value, mediaType, schema}
\*   broken   its supports raises an error
CustomNames == {"myjson", "xml", "broken"}

ParserSchema == << "schema", 99 >>

RECURSIVE SeqsUpTo(_, _)
\* the sequences over S of length at most n
SeqsUpTo(S, n) ==
  IF n = 0 THEN {<< >>}
  ELSE LET shorter == SeqsUpTo(S, n - 1)
       IN shorter \cup {Append(q, x) : q \in shorter, x \in S}

\* arrays of distinct supplied entries
ParsersInputs ==
  {[i \in 1..Len(q) |-> [name |-> q[i], builtin |-> FALSE]] :
     q \in {r \in SeqsUpTo(CustomNames, MaxCustom) :
              \A i, j \in 1..Len(r) : i # j => r[i] # r[j]}}

\* parser.supports(mediaType): "true", "false" or "throw"
Supports(parser, mediaType) ==
  LET b(m) == IF m # false THEN "true" ELSE "false" IN
  IF parser.builtin
    THEN CASE parser.name = "json" -> b(is(mediaType, << "json" >>))
           [] parser.name = "urlencoded" -> b(is(mediaType, << "urlencoded" >>))
           [] parser.name = "text" -> b(is(mediaType, TextAny))
    ELSE CASE parser.name = "myjson" -> b(is(mediaType, << "json" >>))
           [] parser.name = "xml" -> b(is(mediaType, ApplicationXml))
           [] parser.name = "broken" -> "throw"

\* parsers that all ask for coercion
ParseBodyAllCoerce(parser, v) ==
  IF parser.builtin
    THEN ("value" :> v) @@ ("coercionRequired" :> TRUE)
    ELSE "value" :> v

\* the object a successful parser.parse(request) resolves to, the decoded
\* body being v
ParseBody(parser, v) ==
  IF parser.builtin
    THEN CASE parser.name = "json" -> "value" :> v
           [] parser.name = "urlencoded" -> ("value" :> v) @@ ("coercionRequired" :> TRUE)
           [] parser.name = "text" -> "value" :> v
    ELSE CASE parser.name = "xml" ->
                ("value" :> v) @@ ("mediaType" :> TextPlain) @@ ("schema" :> ParserSchema)
           [] OTHER -> "value" :> v

(***************************************************************************)
(* Errors.  statusCode 0 stands for a falsy statusCode (absent or 0).      *)
(***************************************************************************)
NoError == [name |-> "none", statusCode |-> 0, text |-> "", args |-> << >>]

\* status codes of the errors raised by a parser
ErrCodes == {0, 399, 400, 500, 503}

ParserError(code) ==
  [name |-> "ParserError", statusCode |-> code, text |-> "cannot parse", args |-> << >>]

\* a normalization that is not idempotent: an absent code becomes 500
normalizeAbsentTo500(err) ==
  IF err.statusCode = 0 THEN [err EXCEPT !.statusCode = 500]
  ELSE IF err.statusCode >= 500 THEN [err EXCEPT !.statusCode = 400]
  ELSE err

\* the module-level function used by parse()
normalizeParsingError(err) ==
  IF err.statusCode = 0 \/ err.statusCode >= 500
    THEN [err EXCEPT !.statusCode = 400]
    ELSE err

\* the comparison of line 200 written > 500
normalizeAbove500(err) ==
  IF err.statusCode = 0 \/ err.statusCode > 500
    THEN [err EXCEPT !.statusCode = 400]
    ELSE err

\* the test !err.statusCode of line 200 left out
normalizeServerOnly(err) ==
  IF err.statusCode >= 500
    THEN [err EXCEPT !.statusCode = 400]
    ELSE err

\* the private method used by the catch of loadRequestBodyIfNeeded
this_normalizeParsingError(err) ==
  IF err.statusCode = 0 \/ err.statusCode >= 500
    THEN [err EXCEPT !.statusCode = 400]
    ELSE err

\* new HttpErrors.UnsupportedMediaType(message)
UnsupportedMediaType(text, args) ==
  [name |-> "UnsupportedMediaTypeError", statusCode |-> 415, text |-> text, args |-> args]

\* new Error(message)
PlainError(text) ==
  [name |-> "Error", statusCode |-> 0, text |-> text, args |-> << >>]

(***************************************************************************)
(* Inputs of loadRequestBodyIfNeeded.                                      *)
(***************************************************************************)
DeclaredPatterns ==
  {ApplicationJson, ApplicationUrlencoded, ApplicationXml, TextAny,
   ApplicationAnyJson, AnyAny}

\* the schema declared for the i-th entry of a content map
SchemaAt(i) == << "schema", i >>

\* {type: 'object'}
ObjectSchema == << "schema", 0 >>

\* content maps in iteration order: the keys of an object are distinct
ContentMaps ==
  {[i \in 1..Len(q) |-> [type |-> q[i], schema |-> SchemaAt(i)]] :
     q \in {r \in SeqsUpTo(DeclaredPatterns, MaxContent) :
              \A i, j \in 1..Len(r) : i # j => r[i] # r[j]}}

\* operationSpec.requestBody: absent, a reference object, or an object with
\* a content map (an absent content reads as the empty map, line 227)
OperationSpecs ==
  {[requestBody |-> "absent", content |-> << >>],
   [requestBody |-> "$ref", content |-> << >>]}
    \cup {[requestBody |-> "object", content |-> m] : m \in ContentMaps}

\* the Content-Type header of the request; false when there is none
ContentTypes ==
  {false, ApplicationJson, ApplicationJsonCharset, ApplicationVndJson,
   ApplicationUrlencoded, ApplicationXml, TextPlain, << "json" >>}

\* the value a parser decodes from the body stream
BodyValues == {"decoded"}

Calls == {1, 2}

\* the calls made in the sequential specification
SingleCall == {1}

(***************************************************************************)
(* State.                                                                  *)
(***************************************************************************)
VARIABLES
  constructed,        \* the constructor has run
  options,            \* the options argument of the constructor
  parsersArg,         \* the parsers argument of the constructor
  jsonOptions,        \* options given to json()
  urlencodedOptions,  \* options given to urlencoded()
  textOptions,        \* options given to text()
  parsers,            \* this.parsers
  pc,                 \* per call: "idle", "parsing" (at the await), "done", "failed"
  operationSpec,      \* per call: the operationSpec argument
  request,            \* per call: the request (its content-type header and body)
  contentType,        \* per call: the local contentType
  content,            \* per call: the local content
  matchedMediaType,   \* per call: the local matchedMediaType
  requestBody,        \* per call: the local requestBody object
  selected,           \* per call: index in this.parsers of the awaited parser, or 0
  raised,             \* per call: the error as first raised by a parser
  error,              \* per call: the error the call throws
  result,             \* per call: the object the call returns
  isLog,              \* per call: the patterns given to is() at line 240, in order
  supportsLog,        \* per call: the entries asked supports, in order
  parseLog,           \* per call: the entries whose parse was invoked, in order
  headerReads,        \* per call: number of reads of the content-type header
  normalizeLog        \* per call: the places where an error was normalized, in order

ctorVars == << constructed, options, parsersArg, jsonOptions, urlencodedOptions, textOptions, parsers >>

callVars ==
  << pc, operationSpec, request, contentType, content, matchedMediaType,
     requestBody, selected, raised, error, result, isLog, supportsLog,
     parseLog, headerReads, normalizeLog >>

vars == << ctorVars, callVars >>

NoSpec == [requestBody |-> "absent", content |-> << >>]
NoRequest == [contentType |-> false, body |-> "undefined"]
NoResult == EmptyObj

Init ==
  /\ constructed = FALSE
  /\ options \in OptionsInputs
  /\ jsonOptions = EmptyObj
  /\ urlencodedOptions = EmptyObj
  /\ textOptions = EmptyObj
  /\ parsersArg \in ParsersInputs
  /\ parsers = << >>
  /\ pc = [c \in Calls |-> "idle"]
  /\ operationSpec = [c \in Calls |-> NoSpec]
  /\ request = [c \in Calls |-> NoRequest]
  /\ contentType = [c \in Calls |-> false]
  /\ content = [c \in Calls |-> << >>]
  /\ matchedMediaType = [c \in Calls |-> false]
  /\ requestBody = [c \in Calls |-> EmptyObj]
  /\ selected = [c \in Calls |-> 0]
  /\ raised = [c \in Calls |-> NoError]
  /\ error = [c \in Calls |-> NoError]
  /\ result = [c \in Calls |-> NoResult]
  /\ isLog = [c \in Calls |-> << >>]
  /\ supportsLog = [c \in Calls |-> << >>]
  /\ parseLog = [c \in Calls |-> << >>]
  /\ headerReads = [c \in Calls |-> 0]
  /\ normalizeLog = [c \in Calls |-> << >>]

(***************************************************************************)
(* The constructor, lines 136-181.                                         *)
(***************************************************************************)
\* the built-in entries put before the supplied ones
ConcatBuiltinsFirst(ps) == BuiltinEntries \o ps

\* line 164 : parsers.concat([json, urlencoded, text])
ConcatBuiltins(ps) == ps \o BuiltinEntries

Constructor ==
  /\ ~constructed
  /\ constructed' = TRUE
  /\ jsonOptions' =
       ObjectAssign(("type" :> "json") @@ ("limit" :> DEFAULT_LIMIT),
                    getParserOptions("json", options))
  /\ urlencodedOptions' =
       ObjectAssign(("type" :> "urlencoded") @@ ("extended" :> TRUE)
                      @@ ("limit" :> DEFAULT_LIMIT),
                    getParserOptions("urlencoded", options))
  /\ textOptions' =
       ObjectAssign(("type" :> "text/*") @@ ("limit" :> DEFAULT_LIMIT),
                    getParserOptions("text", options))
  /\ parsers' = ConcatBuiltins(parsersArg)
  /\ UNCHANGED << options, parsersArg, callVars >>

(***************************************************************************)
(* loadRequestBodyIfNeeded, lines 206-281.  The function runs without      *)
(* interruption up to its only await (line 271) or to its return or throw. *)
(***************************************************************************)
\* getContentType(request)
getContentType(req) == req.contentType

\* the guard of line 214 testing the content map instead
NoRequestBodyContent(spec) == spec.requestBody = "absent" /\ Len(spec.content) > 0

\* line 218 with another default
ContentTypeOrText(req) ==
  IF getContentType(req) # false THEN getContentType(req) ELSE TextPlain

\* line 218 : getContentType(request) || 'application/json'
ContentTypeOrJson(req) ==
  IF getContentType(req) # false THEN getContentType(req) ELSE ApplicationJson

\* line 214 : !operationSpec.requestBody
NoRequestBody(spec) == spec.requestBody = "absent"

\* line 223 : isReferenceObject(operationSpec.requestBody)
\* a test that takes no request body for a reference
isReferenceObjectNever(spec) == FALSE

\* line 223 : isReferenceObject(operationSpec.requestBody)
isReferenceObject(spec) == spec.requestBody = "$ref"

\* the keys without the last one
KeysButLast(cont) == [i \in 1..(Len(cont) - 1) |-> cont[i].type]

\* Object.keys(content)
Keys(cont) == [i \in 1..Len(cont) |-> cont[i].type]

\* a default that allows json only
EffectiveContentJsonOnly(spec) ==
  IF Len(spec.content) = 0
    THEN << [type |-> ApplicationJson, schema |-> ObjectSchema] >>
    ELSE spec.content

\* lines 227-234 : the declared content map, or the two defaults
EffectiveContent(spec) ==
  IF Len(spec.content) = 0
    THEN << [type |-> ApplicationJson, schema |-> ObjectSchema],
            [type |-> ApplicationUrlencoded, schema |-> ObjectSchema] >>
    ELSE spec.content

RECURSIVE MatchLoopNoBreak(_, _, _, _)
\* MatchLoop without the break of line 245
MatchLoopNoBreak(ct, cont, i, st) ==
  IF i > Len(cont) THEN st
  ELSE LET type == cont[i].type
           m    == is(ct, type)
           st1  == [st EXCEPT !.matchedMediaType = IF m # false THEN m ELSE @,
                              !.isLog = Append(@, type)]
       IN IF m # false
            THEN MatchLoopNoBreak(ct, cont, i + 1,
                   [st1 EXCEPT !.requestBody =
                      ObjectAssign(@, ("mediaType" :> type) @@ ("schema" :> cont[i].schema))])
            ELSE MatchLoopNoBreak(ct, cont, i + 1, st1)

RECURSIVE MatchLoop(_, _, _, _)
\* lines 238-247 : the loop over the declared patterns, from the i-th on;
\* st holds matchedMediaType, requestBody and the log of is() calls
MatchLoop(ct, cont, i, st) ==
  IF i > Len(cont) THEN st
  ELSE LET type == cont[i].type
           m    == is(ct, type)
           st1  == [st EXCEPT !.matchedMediaType = m, !.isLog = Append(@, type)]
       IN IF m # false
            THEN [st1 EXCEPT !.requestBody =
                    ObjectAssign(@, ("mediaType" :> type) @@ ("schema" :> cont[i].schema))]
            ELSE MatchLoop(ct, cont, i + 1, st1)

\* a loop that gives up after the first entry that does not support
SelectLoopFirstOnly(ps, matched, j, log) ==
  IF j > Len(ps) THEN [how |-> "none", index |-> 0, supportsLog |-> log]
  ELSE LET sup  == Supports(ps[j], matched)
           log1 == Append(log, j)
       IN IF sup = "throw" THEN [how |-> "throw", index |-> j, supportsLog |-> log1]
          ELSE IF sup = "false" THEN [how |-> "none", index |-> 0, supportsLog |-> log1]
          ELSE [how |-> "parse", index |-> j, supportsLog |-> log1]

RECURSIVE SelectLoopSwallow(_, _, _, _)
RECURSIVE SelectLoop(_, _, _, _)
\* lines 257-273 up to the call of parse : the loop over this.parsers, from
\* the j-th on; how is "parse" (the j-th entry is invoked), "throw" (its
\* supports raised) or "none" (the loop ended)
\* a loop that takes a throwing supports for a refusal
SelectLoopSwallow(ps, matched, j, log) ==
  IF j > Len(ps) THEN [how |-> "none", index |-> 0, supportsLog |-> log]
  ELSE LET sup  == Supports(ps[j], matched)
           log1 == Append(log, j)
       IN IF sup = "true" THEN [how |-> "parse", index |-> j, supportsLog |-> log1]
          ELSE SelectLoopSwallow(ps, matched, j + 1, log1)

SelectLoop(ps, matched, j, log) ==
  IF j > Len(ps) THEN [how |-> "none", index |-> 0, supportsLog |-> log]
  ELSE LET sup  == Supports(ps[j], matched)
           log1 == Append(log, j)
       IN IF sup = "throw" THEN [how |-> "throw", index |-> j, supportsLog |-> log1]
          ELSE IF sup = "false" THEN SelectLoop(ps, matched, j + 1, log1)
          ELSE [how |-> "parse", index |-> j, supportsLog |-> log1]

MismatchText == "Content-type %1 does not match [%2]."
UnsupportedText == "Content-type %1 is not supported."
RefText == "$ref requestBody is not supported yet."

\* call c is made with operation spec spec and request req; an error raised
\* by a supports predicate carries any status code of ErrCodes
Call(c, spec, req) ==
  /\ constructed
  /\ pc[c] = "idle"
  /\ operationSpec' = [operationSpec EXCEPT ![c] = spec]
  /\ request' = [request EXCEPT ![c] = req]
  /\ LET body0 == "value" :> "undefined" IN
     IF NoRequestBody(spec)
       THEN \* line 214
            /\ pc' = [pc EXCEPT ![c] = "done"]
            /\ requestBody' = [requestBody EXCEPT ![c] = body0]
            /\ result' = [result EXCEPT ![c] = body0]
            /\ UNCHANGED << contentType, content, matchedMediaType, selected,
                            raised, error, isLog, supportsLog, parseLog, headerReads,
                            normalizeLog >>
       ELSE
         LET ct == ContentTypeOrJson(req) IN
         /\ headerReads' = [headerReads EXCEPT ![c] = @ + 1]
         /\ contentType' = [contentType EXCEPT ![c] = ct]
         /\ IF isReferenceObject(spec)
              THEN \* line 224
                   /\ pc' = [pc EXCEPT ![c] = "failed"]
                   /\ error' = [error EXCEPT ![c] = PlainError(RefText)]
                   /\ requestBody' = [requestBody EXCEPT ![c] = body0]
                   /\ UNCHANGED << content, matchedMediaType, selected, raised,
                                   result, isLog, supportsLog, parseLog, normalizeLog >>
              ELSE
                LET cont == EffectiveContent(spec)
                    st   == MatchLoop(ct, cont, 1,
                              [matchedMediaType |-> false, requestBody |-> body0,
                               isLog |-> << >>])
                IN
                /\ content' = [content EXCEPT ![c] = cont]
                /\ matchedMediaType' = [matchedMediaType EXCEPT ![c] = st.matchedMediaType]
                /\ requestBody' = [requestBody EXCEPT ![c] = st.requestBody]
                /\ isLog' = [isLog EXCEPT ![c] = st.isLog]
                /\ IF st.matchedMediaType = false
                     THEN \* line 251
                          /\ pc' = [pc EXCEPT ![c] = "failed"]
                          /\ error' = [error EXCEPT ![c] =
                               UnsupportedMediaType(MismatchText, << ct, Keys(cont) >>)]
                          /\ UNCHANGED << selected, raised, result, supportsLog, parseLog,
                                          normalizeLog >>
                     ELSE
                       LET sel == SelectLoop(parsers, st.matchedMediaType, 1, << >>) IN
                       /\ supportsLog' = [supportsLog EXCEPT ![c] = sel.supportsLog]
                       /\ CASE sel.how = "parse" ->
                                 \* line 271 : parse is invoked and awaited
                                 /\ pc' = [pc EXCEPT ![c] = "parsing"]
                                 /\ selected' = [selected EXCEPT ![c] = sel.index]
                                 /\ parseLog' = [parseLog EXCEPT ![c] = Append(@, sel.index)]
                                 /\ UNCHANGED << raised, error, result, normalizeLog >>
                            [] sel.how = "throw" ->
                                 \* line 275
                                 /\ pc' = [pc EXCEPT ![c] = "failed"]
                                 /\ \E scode \in ErrCodes :
                                      /\ raised' = [raised EXCEPT ![c] = ParserError(scode)]
                                      /\ error' = [error EXCEPT ![c] =
                                           this_normalizeParsingError(ParserError(scode))]
                                 /\ normalizeLog' = [normalizeLog EXCEPT ![c] = Append(@, "catch")]
                                 /\ UNCHANGED << selected, result, parseLog >>
                            [] sel.how = "none" ->
                                 \* line 278
                                 /\ pc' = [pc EXCEPT ![c] = "failed"]
                                 /\ error' = [error EXCEPT ![c] =
                                      UnsupportedMediaType(UnsupportedText,
                                                           << st.matchedMediaType >>)]
                                 /\ UNCHANGED << selected, raised, result, parseLog,
                                                 normalizeLog >>
  /\ UNCHANGED ctorVars

\* ParseResolves with requestBody held in a field of the parser object: the
\* merge is seen by every call that is at its await
ParseResolvesShared(c, v) ==
  /\ pc[c] = "parsing"
  /\ LET parser == parsers[selected[c]]
         body   == ParseBody(parser, v)
         merged == ObjectAssign(requestBody[c], body)
     IN /\ request' = [request EXCEPT ![c].body = IF parser.builtin THEN v ELSE @]
        /\ requestBody' = [d \in Calls |->
                             IF d = c \/ pc[d] = "parsing" THEN merged ELSE requestBody[d]]
        /\ result' = [result EXCEPT ![c] = merged]
  /\ pc' = [pc EXCEPT ![c] = "done"]
  /\ UNCHANGED << ctorVars, operationSpec, contentType, content, matchedMediaType,
                  selected, raised, error, isLog, supportsLog, parseLog, headerReads,
                  normalizeLog >>

\* the awaited parse of call c resolves, the decoded body being v
\* (lines 183-196 for a built-in entry), and the call returns (line 272)
ParseResolves(c, v) ==
  /\ pc[c] = "parsing"
  /\ LET parser == parsers[selected[c]]
         body   == ParseBody(parser, v)
         merged == ObjectAssign(requestBody[c], body)
     IN /\ request' = [request EXCEPT ![c].body = IF parser.builtin THEN v ELSE @]
        /\ requestBody' = [requestBody EXCEPT ![c] = merged]
        /\ result' = [result EXCEPT ![c] = merged]
  /\ pc' = [pc EXCEPT ![c] = "done"]
  /\ UNCHANGED << ctorVars, operationSpec, contentType, content, matchedMediaType,
                  selected, raised, error, isLog, supportsLog, parseLog, headerReads,
                  normalizeLog >>

\* ParseRejects with the catch inside the loop: the next entries are tried
ParseRejectsRetry(c, code) ==
  /\ pc[c] = "parsing"
  /\ LET sel == SelectLoop(parsers, matchedMediaType[c], selected[c] + 1, supportsLog[c])
     IN IF sel.how = "parse"
          THEN /\ selected' = [selected EXCEPT ![c] = sel.index]
               /\ supportsLog' = [supportsLog EXCEPT ![c] = sel.supportsLog]
               /\ parseLog' = [parseLog EXCEPT ![c] = Append(@, sel.index)]
               /\ raised' = [raised EXCEPT ![c] = ParserError(code)]
               /\ UNCHANGED << pc, error >>
          ELSE /\ pc' = [pc EXCEPT ![c] = "failed"]
               /\ raised' = [raised EXCEPT ![c] = ParserError(code)]
               /\ error' = [error EXCEPT ![c] = this_normalizeParsingError(ParserError(code))]
               /\ UNCHANGED << selected, supportsLog, parseLog >>
  /\ normalizeLog' = [normalizeLog EXCEPT ![c] = Append(@, "catch")]
  /\ UNCHANGED << ctorVars, operationSpec, request, contentType, content,
                  matchedMediaType, requestBody, result, isLog, headerReads >>

\* the awaited parse of call c fails with an error of status code code; a
\* built-in entry rejects with the error normalized by parse() (line 76);
\* the catch normalizes and throws (line 275)
\* a catch that awaits the same parser again instead of throwing
ParseRejectsAwaitsAgain(c, code) ==
  /\ pc[c] = "parsing"
  /\ raised' = [raised EXCEPT ![c] = ParserError(code)]
  /\ UNCHANGED << ctorVars, pc, operationSpec, request, contentType, content,
                  matchedMediaType, requestBody, selected, error, result, isLog,
                  supportsLog, parseLog, headerReads, normalizeLog >>

ParseRejects(c, code) ==
  /\ pc[c] = "parsing"
  /\ LET parser   == parsers[selected[c]]
         rejected == IF parser.builtin
                       THEN normalizeParsingError(ParserError(code))
                       ELSE ParserError(code)
     IN /\ raised' = [raised EXCEPT ![c] = ParserError(code)]
        /\ error' = [error EXCEPT ![c] = this_normalizeParsingError(rejected)]
        /\ normalizeLog' = [normalizeLog EXCEPT ![c] =
             IF parser.builtin THEN @ \o << "parse", "catch" >> ELSE Append(@, "catch")]
  /\ pc' = [pc EXCEPT ![c] = "failed"]
  /\ UNCHANGED << ctorVars, operationSpec, request, contentType, content,
                  matchedMediaType, requestBody, selected, result, isLog,
                  supportsLog, parseLog, headerReads >>

Requests == {[contentType |-> t, body |-> "undefined"] : t \in ContentTypes}

\* call c is made, with any operation spec and any request
LoadRequestBodyIfNeeded(c) ==
  /\ pc[c] = "idle"
  /\ \E spec \in OperationSpecs, req \in Requests : Call(c, spec, req)

\* the parser awaited by call c succeeds
ParserSucceeds(c) ==
  /\ pc[c] = "parsing"
  /\ \E v \in BodyValues : ParseResolves(c, v)

\* the parser awaited by call c fails, with any status code
ParserFails(c) ==
  /\ pc[c] = "parsing"
  /\ \E code \in ErrCodes : ParseRejects(c, code)

Next ==
  \/ Constructor
  \/ \E c \in SingleCall : LoadRequestBodyIfNeeded(c)
  \/ \E c \in SingleCall : ParserSucceeds(c)
  \/ \E c \in SingleCall : ParserFails(c)

Spec == Init /\ [][Next]_vars

\* the promise awaited at line 271 is settled in the end: the body-parser
\* middleware calls back with or without an error
ParseSettles(c) == ParserSucceeds(c) \/ ParserFails(c)

SpecLive == Spec /\ \A c \in SingleCall : WF_vars(ParseSettles(c))

(***************************************************************************)
(* Two calls on the same RequestBodyParser.  The steps of the calls         *)
(* interleave at the await of line 271; the inputs come from smaller sets.  *)
(***************************************************************************)
\* the two defaults of lines 229-233 written out in the operation spec
ExplicitDefaults ==
  << [type |-> ApplicationJson, schema |-> ObjectSchema],
     [type |-> ApplicationUrlencoded, schema |-> ObjectSchema] >>

ConcurrentSpecs ==
  {[requestBody |-> "absent", content |-> << >>],
   [requestBody |-> "$ref", content |-> << >>],
   [requestBody |-> "object", content |-> << >>],
   [requestBody |-> "object", content |-> ExplicitDefaults],
   [requestBody |-> "object", content |-> << [type |-> AnyAny, schema |-> SchemaAt(1)] >>],
   [requestBody |-> "object",
    content |-> << [type |-> ApplicationXml, schema |-> SchemaAt(1)],
                   [type |-> TextAny, schema |-> SchemaAt(2)] >>]}

ConcurrentRequests ==
  {[contentType |-> t, body |-> "undefined"] :
     t \in {false, ApplicationJson, ApplicationUrlencoded, ApplicationXml, TextPlain}}

InitConcurrent == Init /\ options = EmptyObj

\* call c is made, with an operation spec and a request of the smaller sets
LoadConcurrently(c) ==
  /\ pc[c] = "idle"
  /\ \E spec \in ConcurrentSpecs, req \in ConcurrentRequests : Call(c, spec, req)

NextConcurrent ==
  \/ Constructor
  \/ \E c \in Calls : LoadConcurrently(c)
  \/ \E c \in Calls : ParserSucceeds(c)
  \/ \E c \in Calls : ParserFails(c)

SpecConcurrent == InitConcurrent /\ [][NextConcurrent]_vars

(***************************************************************************)
(* Properties of loadRequestBodyIfNeeded.                                  *)
(***************************************************************************)
\* the content type the call matches: the header, or application/json
RequestContentType(c) ==
  IF request[c].contentType # false THEN request[c].contentType ELSE ApplicationJson

\* index of the first entry of cont whose pattern matches ct, or 0
FirstMatch(ct, cont) ==
  LET hits == {i \in 1..Len(cont) : is(ct, cont[i].type) # false} IN
  IF hits = {} THEN 0 ELSE CHOOSE i \in hits : \A j \in hits : i <= j

\* call c has gone through the matching step (lines 236-247)
Matching(c) == pc[c] # "idle" /\ operationSpec[c].requestBody = "object"

\* the declared entry the matching step of call c selects
Declared(c) ==
  EffectiveContent(operationSpec[c])[FirstMatch(RequestContentType(c),
                                                EffectiveContent(operationSpec[c]))]

\* C1: once the matching step has found a match and until a parser has
\* returned, requestBody.mediaType and requestBody.schema are the pattern
\* and the schema of the first entry, in the order of the content map, whose
\* pattern matches the request content type, and is() was asked for the
\* patterns up to that entry and for no later one.
C1_FirstMatchRecorded ==
  \A c \in Calls :
    LET cont == EffectiveContent(operationSpec[c])
        n    == FirstMatch(RequestContentType(c), cont)
    IN (Matching(c) /\ n # 0 /\ pc[c] \in {"parsing", "failed"}) =>
         /\ requestBody[c].mediaType = cont[n].type
         /\ requestBody[c].schema = cont[n].schema
         /\ isLog[c] = SubSeq(Keys(cont), 1, n)

\* two entries of the content map match and the first one is recorded
C1_Witness ==
  \E c \in Calls :
    /\ pc[c] = "parsing"
    /\ Len(content[c]) >= 2
    /\ is(contentType[c], content[c][1].type) # false
    /\ is(contentType[c], content[c][2].type) # false
    /\ requestBody[c].mediaType = content[c][1].type
    /\ requestBody[c].schema = SchemaAt(1)

\* C2: the entry whose parse is invoked is the first entry of the registry
\* (the supplied entries in their order, then json, urlencoded, text) whose
\* supports answers true for matchedMediaType; when a supplied entry
\* supports the matched type no built-in entry is invoked.
C2_FirstSupportingParser ==
  \A c \in Calls :
    selected[c] # 0 =>
      /\ parsers = parsersArg \o BuiltinEntries
      /\ Supports(parsers[selected[c]], matchedMediaType[c]) = "true"
      /\ \A j \in 1..(selected[c] - 1) :
           Supports(parsers[j], matchedMediaType[c]) = "false"
      /\ (\E j \in 1..Len(parsersArg) :
            Supports(parsersArg[j], matchedMediaType[c]) = "true")
           => ~parsers[selected[c]].builtin

\* a supplied entry is invoked although the built-in json entry supports
\* the matched type too
C2_Witness ==
  \E c \in Calls :
    /\ pc[c] = "parsing"
    /\ parsers[selected[c]].name = "myjson"
    /\ Supports(BuiltinEntries[1], matchedMediaType[c]) = "true"

\* C3: at most one parse is invoked per call, and once the invoked parse
\* has raised an error the call has failed: the only parse invoked is the
\* selected one and the last supports asked was the selected entry's.
C3_OneParserNoRetry ==
  \A c \in Calls :
    /\ Len(parseLog[c]) <= 1
    /\ (selected[c] # 0 /\ raised[c] # NoError) =>
         /\ pc[c] = "failed"
         /\ error[c] # NoError
         /\ parseLog[c] = << selected[c] >>
         /\ supportsLog[c] = [i \in 1..selected[c] |-> i]

\* the parse of a supplied entry failed while a later entry supports the
\* matched type as well
C3_Witness ==
  \E c \in Calls :
    /\ pc[c] = "failed"
    /\ selected[c] # 0
    /\ raised[c] # NoError
    /\ \E j \in (selected[c] + 1)..Len(parsers) :
         Supports(parsers[j], matchedMediaType[c]) = "true"

\* call c has failed in the parse of the selected entry
ParsingFailed(c) == pc[c] = "failed" /\ selected[c] # 0 /\ raised[c] # NoError

\* C4 as stated: the surfaced status is the parser's when that is within
\* 400..499 and 400 in every other case (absent, below 400, 500 and above).
C4_ClientCodeOrElse400 ==
  \A c \in Calls :
    ParsingFailed(c) =>
      error[c].statusCode =
        IF raised[c].statusCode \in 400..499 THEN raised[c].statusCode ELSE 400

\* C4 amended: the surfaced status is the parser's when that is present
\* (non-zero) and below 500, which covers 400..499 and also the codes below
\* 400, and it is 400 when the parser's status is absent or 500 and above.
C4_KeptBelow500Else400 ==
  \A c \in Calls :
    ParsingFailed(c) =>
      error[c].statusCode =
        IF raised[c].statusCode # 0 /\ raised[c].statusCode < 500
          THEN raised[c].statusCode
          ELSE 400

\* a supplied parser failed with status 500, surfaced as 400
C4_Witness ==
  \E c \in Calls :
    /\ ParsingFailed(c)
    /\ ~parsers[selected[c]].builtin
    /\ raised[c].statusCode = 500
    /\ error[c].statusCode = 400

\* the effective options of a format as C5 states them: the defaults,
\* overridden by the shared options, overridden by the format's options
ClaimedOptions(format, defaults) ==
  LET shared == [k \in DOMAIN options \ FormatKeys |-> options[k]]
      own    == IF format \in DOMAIN options THEN options[format] ELSE EmptyObj
  IN [k \in DOMAIN defaults \cup DOMAIN shared \cup DOMAIN own |->
        IF k \in DOMAIN own THEN own[k]
        ELSE IF k \in DOMAIN shared THEN shared[k]
        ELSE defaults[k]]

\* C5: the options given to each built-in parser follow the precedence
\* format-specific > shared > default, the default limit being '1mb'.
C5_FormatSpecificFirst ==
  constructed =>
    /\ jsonOptions = ClaimedOptions("json", [type |-> "json", limit |-> "1mb"])
    /\ urlencodedOptions =
         ClaimedOptions("urlencoded",
                        [type |-> "urlencoded", extended |-> TRUE, limit |-> "1mb"])
    /\ textOptions = ClaimedOptions("text", [type |-> "text/*", limit |-> "1mb"])

\* C6 as stated: every failure of a call carries an HTTP status code.
C6_EveryFailureHasStatus ==
  \A c \in Calls : pc[c] = "failed" => error[c].statusCode \in 100..599

\* C6 amended: the failure for a reference request body is a plain Error
\* without status code; every other failure carries one: 415 for the
\* declared-type mismatch and for the missing parser, and for an error of a
\* parser or of a supports predicate its own code when that is present and
\* below 500, else 400.
C6_StatusExceptReference ==
  \A c \in Calls :
    pc[c] = "failed" =>
      IF operationSpec[c].requestBody = "$ref"
        THEN error[c] = [name |-> "Error", statusCode |-> 0, text |-> RefText, args |-> << >>]
        ELSE IF raised[c] = NoError
          THEN error[c].name = "UnsupportedMediaTypeError" /\ error[c].statusCode = 415
          ELSE error[c].statusCode # 0 /\ error[c].statusCode < 500

\* a supplied parser failed with an error without status code, surfaced
\* with status 400
C6_Witness ==
  \E c \in Calls :
    /\ ParsingFailed(c)
    /\ ~parsers[selected[c]].builtin
    /\ raised[c].statusCode = 0
    /\ error[c].statusCode = 400

\* C7: when no pattern of the effective content map matches the request
\* content type the call fails with status 415, the message carries the
\* request content type and every pattern of the effective map, and no
\* supports and no parse was called.
C7_MismatchIs415 ==
  \A c \in Calls :
    LET cont == EffectiveContent(operationSpec[c]) IN
    (Matching(c) /\ FirstMatch(RequestContentType(c), cont) = 0) =>
      /\ pc[c] = "failed"
      /\ error[c].name = "UnsupportedMediaTypeError"
      /\ error[c].statusCode = 415
      /\ error[c].text = MismatchText
      /\ error[c].args = << RequestContentType(c), [i \in 1..Len(cont) |-> cont[i].type] >>
      /\ supportsLog[c] = << >>
      /\ parseLog[c] = << >>

\* a request with a content type fails against two declared patterns
C7_Witness ==
  \E c \in Calls :
    /\ pc[c] = "failed"
    /\ error[c].text = MismatchText
    /\ request[c].contentType # false
    /\ Len(operationSpec[c].content) >= 2
    /\ Len(error[c].args[2]) = Len(operationSpec[c].content)

\* a pattern matched and every entry's supports answers false for the
\* matched type
NoParserSupports(c) ==
  /\ Matching(c)
  /\ matchedMediaType[c] # false
  /\ \A j \in 1..Len(parsers) : Supports(parsers[j], matchedMediaType[c]) = "false"

HasWildcard(type) == type[1] = "+" \/ "*" \in Range(type)

\* C8 as stated: the missing-parser failure names the matched declared
\* pattern itself, also when that pattern has a wildcard.
C8_NamesDeclaredPattern ==
  \A c \in Calls :
    NoParserSupports(c) =>
      /\ pc[c] = "failed"
      /\ error[c].statusCode = 415
      /\ error[c].text = UnsupportedText
      /\ error[c].args = << Declared(c).type >>

\* C8 amended: the missing-parser failure has status 415 and names
\* matchedMediaType, which is the matched declared pattern when that has no
\* wildcard and the request content type without its parameters when it has
\* one; it does not list the declared patterns; every entry was asked
\* supports, in order, and no parse was invoked.
C8_NamesMatchedMediaType ==
  \A c \in Calls :
    NoParserSupports(c) =>
      /\ pc[c] = "failed"
      /\ error[c].name = "UnsupportedMediaTypeError"
      /\ error[c].statusCode = 415
      /\ error[c].text = UnsupportedText
      /\ error[c].args =
           << IF HasWildcard(Declared(c).type)
                THEN tryNormalizeType(RequestContentType(c))
                ELSE Declared(c).type >>
      /\ supportsLog[c] = [j \in 1..Len(parsers) |-> j]
      /\ parseLog[c] = << >>

\* the matched pattern has a wildcard, no entry supports the request's
\* type, and the failure names that type
C8_Witness ==
  \E c \in Calls :
    /\ NoParserSupports(c)
    /\ HasWildcard(requestBody[c].mediaType)
    /\ Len(parsers) > Len(BuiltinEntries)
    /\ error[c].text = UnsupportedText
    /\ error[c].args = << matchedMediaType[c] >>

\* call c has returned what a parser produced
Parsed(c) == pc[c] = "done" /\ selected[c] # 0

\* C9 as stated: after a successful parse the result's mediaType and schema
\* are the matched declared pattern and its schema, whatever the parser
\* returned.
C9_DeclaredAlwaysKept ==
  \A c \in Calls :
    Parsed(c) =>
      /\ result[c].mediaType = Declared(c).type
      /\ result[c].schema = Declared(c).schema

\* C9 amended: after a successful parse the result's mediaType and schema
\* are the matched declared pattern and its schema when the object returned
\* by the parser has no such property, as for the three built-in entries; a
\* mediaType or schema property of the returned object replaces the
\* recorded one.
C9_DeclaredKeptUnlessReturned ==
  \A c \in Calls :
    Parsed(c) =>
      LET body == ParseBody(parsers[selected[c]], result[c].value) IN
      /\ result[c].mediaType =
           IF "mediaType" \in DOMAIN body THEN body.mediaType ELSE Declared(c).type
      /\ result[c].schema =
           IF "schema" \in DOMAIN body THEN body.schema ELSE Declared(c).schema
      /\ parsers[selected[c]].builtin =>
           /\ result[c].mediaType = Declared(c).type
           /\ result[c].schema = Declared(c).schema

\* the second declared entry matched, a supplied parser returned only a
\* value, and the result carries that entry's pattern and schema
C9_Witness ==
  \E c \in Calls :
    /\ Parsed(c)
    /\ parsers[selected[c]].name = "myjson"
    /\ result[c].value \in BodyValues
    /\ Len(operationSpec[c].content) >= 2
    /\ result[c].mediaType = operationSpec[c].content[2].type
    /\ result[c].schema = SchemaAt(2)

\* C10: a call for an operation without request body returns the empty
\* result, without reading the content type, matching it, or calling
\* supports or parse.
C10_NoBodyEmptyResult ==
  \A c \in Calls :
    (pc[c] # "idle" /\ operationSpec[c].requestBody = "absent") =>
      /\ pc[c] = "done"
      /\ DOMAIN result[c] = {"value"}
      /\ result[c].value = "undefined"
      /\ headerReads[c] = 0
      /\ isLog[c] = << >>
      /\ supportsLog[c] = << >>
      /\ parseLog[c] = << >>

\* a request with a JSON content type for an operation without request body
C10_Witness ==
  \E c \in Calls :
    /\ pc[c] = "done"
    /\ operationSpec[c].requestBody = "absent"
    /\ request[c].contentType = ApplicationJson
    /\ result[c] = [value |-> "undefined"]

\* call c has returned or thrown
Terminated(c) == pc[c] \in {"done", "failed"}

\* C11: of two calls with the same request content type and the same
\* outcome of the awaited parser, one with an empty content map and one with
\* the content map {application/json: {schema: object},
\* application/x-www-form-urlencoded: {schema: object}}, both return the
\* same result or throw the same error.
C11_EmptyContentAsDefaults ==
  \A c, d \in Calls :
    ( /\ Terminated(c) /\ Terminated(d)
      /\ operationSpec[c] = [requestBody |-> "object", content |-> << >>]
      /\ operationSpec[d] = [requestBody |-> "object", content |-> ExplicitDefaults]
      /\ request[c].contentType = request[d].contentType
      /\ raised[c] = raised[d] )
    => /\ pc[c] = pc[d]
       /\ result[c] = result[d]
       /\ error[c] = error[d]
       /\ matchedMediaType[c] = matchedMediaType[d]
       /\ selected[c] = selected[d]

\* a url-encoded request is parsed under the empty content map and under
\* the written-out one, with the same result
C11_Witness ==
  \E c, d \in Calls :
    /\ pc[c] = "done" /\ pc[d] = "done"
    /\ operationSpec[c] = [requestBody |-> "object", content |-> << >>]
    /\ operationSpec[d] = [requestBody |-> "object", content |-> ExplicitDefaults]
    /\ request[c].contentType = ApplicationUrlencoded
    /\ request[d].contentType = ApplicationUrlencoded
    /\ result[c] = result[d]
    /\ result[c].mediaType = ApplicationUrlencoded

\* C12: a call whose request body spec is a $ref has failed with the plain
\* error "$ref requestBody is not supported yet." (no status code, so neither
\* a 415 nor a normalized parsing error) whatever the request's content
\* type; is() was not called, no parser was asked supports, none was invoked
\* and nothing was normalized.
C12_ReferenceFailsAtOnce ==
  \A c \in Calls :
    (pc[c] # "idle" /\ operationSpec[c].requestBody = "$ref")
    => /\ pc[c] = "failed"
       /\ error[c] = PlainError(RefText)
       /\ error[c].statusCode # 415
       /\ raised[c] = NoError
       /\ result[c] = NoResult
       /\ matchedMediaType[c] = false
       /\ selected[c] = 0
       /\ isLog[c] = << >>
       /\ supportsLog[c] = << >>
       /\ parseLog[c] = << >>
       /\ normalizeLog[c] = << >>

\* a $ref call with an XML request has failed
C12_Witness ==
  \E c \in Calls :
    /\ pc[c] = "failed"
    /\ operationSpec[c].requestBody = "$ref"
    /\ request[c].contentType = ApplicationXml
    /\ error[c].text = RefText

\* a JSON-family media type: application/json, or a type with a +json suffix
JsonFamily(m) ==
  \/ m = ApplicationJson
  \/ /\ Len(m) >= 5
     /\ m[Len(m) - 1] = "+"
     /\ m[Len(m)] = "json"
     /\ "*" \notin Range(m)

\* what the specification says built-in entry p supports
Capability(p, m) ==
  CASE p.name = "json" -> JsonFamily(m)
    [] p.name = "urlencoded" -> m = ApplicationUrlencoded
    [] p.name = "text" -> Len(m) >= 3 /\ m[1] = "text" /\ m[2] = "/"

\* C13: every built-in entry supports the matched media type exactly when
\* the type is in its capability (json: the JSON family, urlencoded:
\* application/x-www-form-urlencoded, text: text/*), and a call whose
\* matched type is in the JSON family, no supplied parser supporting it, has
\* selected the built-in json entry and has not failed with 415.
C13_JsonFamilyParsedByJson ==
  \A c \in Calls :
    (Matching(c) /\ matchedMediaType[c] # false)
    => /\ \A j \in 1..Len(parsers) :
            parsers[j].builtin
            => (Supports(parsers[j], matchedMediaType[c]) = "true"
                  <=> Capability(parsers[j], matchedMediaType[c]))
       /\ ( /\ JsonFamily(matchedMediaType[c])
            /\ \A j \in 1..Len(parsersArg) :
                 Supports(parsers[j], matchedMediaType[c]) = "false" )
          => /\ selected[c] # 0
             /\ parsers[selected[c]].name = "json"
             /\ error[c].statusCode # 415

\* C15: after a successful parse by a built-in entry the result has the
\* property coercionRequired exactly when the entry is urlencoded, and then
\* the property is true.
C15_CoercionOnlyUrlencoded ==
  \A c \in Calls :
    (Parsed(c) /\ parsers[selected[c]].builtin)
    => /\ "coercionRequired" \in DOMAIN result[c]
            <=> parsers[selected[c]].name = "urlencoded"
       /\ "coercionRequired" \in DOMAIN result[c] => result[c].coercionRequired = TRUE

\* a url-encoded body was parsed by the built-in entry and asks for coercion
C15_Witness ==
  \E c \in Calls :
    /\ Parsed(c)
    /\ parsers[selected[c]] = [name |-> "urlencoded", builtin |-> TRUE]
    /\ result[c].coercionRequired = TRUE

\* the options the constructor hands to the body-parser factory of a format
EffectiveOptions(type) ==
  CASE type = "json" -> jsonOptions
    [] type = "urlencoded" -> urlencodedOptions
    [] type = "text" -> textOptions

\* the constructor's own defaults for a format
BuiltinDefaults(type) ==
  CASE type = "json" -> ("type" :> "json") @@ ("limit" :> DEFAULT_LIMIT)
    [] type = "urlencoded" ->
         ("type" :> "urlencoded") @@ ("extended" :> TRUE) @@ ("limit" :> DEFAULT_LIMIT)
    [] type = "text" -> ("type" :> "text/*") @@ ("limit" :> DEFAULT_LIMIT)

\* C17: for every format, neither getParserOptions' result nor the options
\* built from it has a key json, urlencoded or text; a key given only in
\* another format's sub-object is not in getParserOptions' result, and in the
\* built options it is absent or has the constructor's default value.
C17_NoFormatKeysNoLeak ==
  constructed =>
    \A type \in FormatKeys :
      LET opts == getParserOptions(type, options)
          eff  == EffectiveOptions(type)
          own  == Prop(options, type)
      IN /\ DOMAIN opts \cap FormatKeys = {}
         /\ DOMAIN eff \cap FormatKeys = {}
         /\ \A other \in FormatKeys \ {type} :
              \A k \in DOMAIN Prop(options, other) :
                (k \notin DOMAIN options /\ k \notin DOMAIN own)
                => /\ k \notin DOMAIN opts
                   /\ \/ k \notin DOMAIN eff
                      \/ /\ k \in DOMAIN BuiltinDefaults(type)
                         /\ eff[k] = BuiltinDefaults(type)[k]

\* options with a text sub-object only: its defaultCharset and limit reach
\* the text options and not the url-encoded ones
C17_Witness ==
  /\ constructed
  /\ "text" \in DOMAIN options
  /\ "limit" \notin DOMAIN options
  /\ textOptions.defaultCharset = "latin1"
  /\ textOptions.limit = "9mb"
  /\ "defaultCharset" \notin DOMAIN urlencodedOptions
  /\ urlencodedOptions.limit = DEFAULT_LIMIT

\* the first entry of the registry whose supports throws for call c's matched
\* type, every entry before it refusing; 0 when there is none
ThrowingEntry(c) ==
  IF \E j \in 1..Len(parsers) :
       /\ Supports(parsers[j], matchedMediaType[c]) = "throw"
       /\ \A i \in 1..(j - 1) : Supports(parsers[i], matchedMediaType[c]) = "false"
    THEN CHOOSE j \in 1..Len(parsers) :
           /\ Supports(parsers[j], matchedMediaType[c]) = "throw"
           /\ \A i \in 1..(j - 1) : Supports(parsers[i], matchedMediaType[c]) = "false"
    ELSE 0

\* C18: when supports throws in the selection loop the call has failed with
\* the thrown error, its status code rewritten to 400 when absent or >= 500
\* and kept otherwise, normalized once in the catch; no later entry was asked
\* supports, none was invoked and the error is not the "not supported" 415.
\* The two 415 errors thrown by loadRequestBodyIfNeeded itself were not
\* normalized.
C18_SupportsErrorsNormalized ==
  \A c \in Calls :
    /\ (Matching(c) /\ matchedMediaType[c] # false /\ ThrowingEntry(c) # 0)
       => /\ pc[c] = "failed"
          /\ raised[c] # NoError
          /\ error[c].name = raised[c].name
          /\ error[c].statusCode =
               IF raised[c].statusCode = 0 \/ raised[c].statusCode >= 500
                 THEN 400 ELSE raised[c].statusCode
          /\ normalizeLog[c] = << "catch" >>
          /\ supportsLog[c] = [i \in 1..ThrowingEntry(c) |-> i]
          /\ parseLog[c] = << >>
          /\ error[c].text # UnsupportedText
    /\ (pc[c] = "failed" /\ error[c].text \in {MismatchText, UnsupportedText})
       => /\ normalizeLog[c] = << >>
          /\ raised[c] = NoError
          /\ error[c].statusCode = 415

\* supports of the first entry threw an error with status 503, surfaced as 400
C18_Witness ==
  \E c \in Calls :
    /\ pc[c] = "failed"
    /\ ThrowingEntry(c) = 1
    /\ Len(parsers) > 1
    /\ raised[c].statusCode = 503
    /\ error[c].statusCode = 400
    /\ supportsLog[c] = << 1 >>

\* C19: normalizing twice gives what normalizing once gives, for every
\* status code; a failure of a built-in parser was normalized in parse and
\* again in the catch, and the status code thrown to the caller is the one
\* after the first normalization.
C19_NormalizedTwiceAsOnce ==
  /\ \A code \in ErrCodes :
       normalizeParsingError(normalizeParsingError(ParserError(code)))
         = normalizeParsingError(ParserError(code))
  /\ \A c \in Calls :
       (ParsingFailed(c) /\ parsers[selected[c]].builtin)
       => /\ normalizeLog[c] = << "parse", "catch" >>
          /\ error[c].statusCode = normalizeParsingError(raised[c]).statusCode
          /\ error[c] = normalizeParsingError(raised[c])

\* a built-in parser failed without a status code: 400 after two
\* normalizations
C19_Witness ==
  \E c \in Calls :
    /\ ParsingFailed(c)
    /\ parsers[selected[c]].builtin
    /\ raised[c].statusCode = 0
    /\ error[c].statusCode = 400
    /\ normalizeLog[c] = << "parse", "catch" >>

\* C14: of two calls with the same operation spec, one without a
\* Content-Type header and one with Content-Type application/json, both use
\* the content type application/json, compare it with the same declared
\* patterns, match the same one, ask the same parsers and select the same
\* one; when no pattern matches both throw the same 415, whose message names
\* application/json.
C14_AbsentHeaderAsJson ==
  \A c, d \in Calls :
    ( /\ Matching(c) /\ Matching(d)
      /\ operationSpec[c] = operationSpec[d]
      /\ request[c].contentType = false
      /\ request[d].contentType = ApplicationJson )
    => /\ contentType[c] = ApplicationJson
       /\ contentType[d] = ApplicationJson
       /\ isLog[c] = isLog[d]
       /\ matchedMediaType[c] = matchedMediaType[d]
       /\ supportsLog[c] = supportsLog[d]
       /\ selected[c] = selected[d]
       /\ parseLog[c] = parseLog[d]
       /\ matchedMediaType[c] = false
          => /\ pc[c] = "failed"
             /\ error[c] = error[d]
             /\ error[c].statusCode = 415
             /\ error[c].text = MismatchText
             /\ error[c].args[1] = ApplicationJson

\* a request without the header and a JSON request both fail against a
\* content map that declares application/xml and text/*
C14_Witness ==
  \E c, d \in Calls :
    /\ pc[c] = "failed" /\ pc[d] = "failed"
    /\ operationSpec[c] = operationSpec[d]
    /\ request[c].contentType = false
    /\ request[d].contentType = ApplicationJson
    /\ error[c].text = MismatchText
    /\ error[c].args[1] = ApplicationJson
    /\ error[d] = error[c]

\* what a call with this operation spec and request returns or throws when
\* it is the only call on a parser with registry ps; fails tells whether the
\* selected parser (or its supports) fails, code is the status code of its
\* error and v the body it decodes
RunAlone(spec, req, ps, fails, code, v) ==
  LET thrown(e) == [pc |-> "failed", result |-> NoResult, error |-> e]
      status    == IF code = 0 \/ code >= 500 THEN 400 ELSE code
  IN
  IF spec.requestBody = "absent"
    THEN [pc |-> "done", result |-> ("value" :> "undefined"), error |-> NoError]
  ELSE IF spec.requestBody = "$ref" THEN thrown(PlainError(RefText))
  ELSE
    LET ct   == IF req.contentType = false THEN ApplicationJson ELSE req.contentType
        cont == IF Len(spec.content) = 0 THEN ExplicitDefaults ELSE spec.content
        n    == FirstMatch(ct, cont)
    IN
    IF n = 0
      THEN thrown(UnsupportedMediaType(MismatchText,
                    << ct, [i \in 1..Len(cont) |-> cont[i].type] >>))
    ELSE
      LET m    == is(ct, cont[n].type)
          asks == {j \in 1..Len(ps) : Supports(ps[j], m) # "false"}
      IN
      IF asks = {} THEN thrown(UnsupportedMediaType(UnsupportedText, << m >>))
      ELSE
        LET j == CHOOSE k \in asks : \A l \in asks : k <= l IN
        IF fails \/ Supports(ps[j], m) = "throw"
          THEN thrown([ParserError(code) EXCEPT !.statusCode = status])
          ELSE [pc |-> "done",
                result |-> ObjectAssign(
                  ("value" :> "undefined") @@ ("mediaType" :> cont[n].type)
                    @@ ("schema" :> cont[n].schema),
                  ParseBody(ps[j], v)),
                error |-> NoError]

\* the outcome of call c is the one of the same call run alone
AsWhenAlone(c) ==
  \E v \in BodyValues :
    LET alone == RunAlone(operationSpec[c], request[c], parsersArg \o BuiltinEntries,
                          raised[c] # NoError, raised[c].statusCode, v)
    IN /\ pc[c] = alone.pc
       /\ result[c] = alone.result
       /\ error[c] = alone.error

\* a step that is not a step of call c leaves everything call c owns as it is
OwnStateKept(c) ==
  pc'[c] = pc[c]
  => /\ operationSpec'[c] = operationSpec[c]
     /\ request'[c] = request[c]
     /\ contentType'[c] = contentType[c]
     /\ matchedMediaType'[c] = matchedMediaType[c]
     /\ requestBody'[c] = requestBody[c]
     /\ selected'[c] = selected[c]
     /\ raised'[c] = raised[c]
     /\ error'[c] = error[c]
     /\ result'[c] = result[c]

\* C16: with two calls on one RequestBodyParser whose steps interleave at the
\* await, every call that has returned or thrown has the result (value,
\* mediaType, schema, coercionRequired) or the error it has when run alone;
\* a step of one call changes nothing the other call owns, and the registry
\* stays the one built by the constructor.
C16_CallsDoNotInterfere ==
  /\ [](\A c \in Calls : Terminated(c) => AsWhenAlone(c))
  /\ [](constructed => parsers = parsersArg \o BuiltinEntries)
  /\ [][/\ \A c \in Calls : OwnStateKept(c)
        /\ constructed => parsers' = parsers]_vars

\* call 1 has returned a parsed body while call 2, with another content
\* type and another matched pattern, is still at its await
C16_Witness ==
  /\ pc[1] = "done" /\ selected[1] # 0
  /\ pc[2] = "parsing"
  /\ request[1].contentType # request[2].contentType
  /\ result[1].mediaType # requestBody[2].mediaType
  /\ selected[1] # selected[2]

\* the terminal outcomes call c is in
Outcomes(c) ==
  {o \in {"empty", "done", "mismatch", "no parser", "indirection", "parsing error"} :
     CASE o = "empty" -> /\ pc[c] = "done"
                         /\ operationSpec[c].requestBody = "absent"
                         /\ result[c] = ("value" :> "undefined")
       [] o = "done" -> pc[c] = "done" /\ selected[c] # 0 /\ Len(parseLog[c]) = 1
       [] o = "mismatch" -> pc[c] = "failed" /\ error[c].text = MismatchText
       [] o = "no parser" -> pc[c] = "failed" /\ error[c].text = UnsupportedText
       [] o = "indirection" -> pc[c] = "failed" /\ error[c].text = RefText
       [] o = "parsing error" -> pc[c] = "failed" /\ error[c].name = "ParserError"}

\* C20: a call that awaits its parser returns or throws in the end, given
\* that the awaited parse settles; a call that has returned or thrown is in
\* exactly one of the six outcomes, has a result and no error or an error
\* and no result, and stays so; a call that has returned a result for a
\* request body has invoked one parser.
C20_TerminatesWithOneOutcome ==
  /\ \A c \in SingleCall : (pc[c] = "parsing") ~> Terminated(c)
  /\ [](\A c \in Calls :
          /\ pc[c] \in {"idle", "parsing", "done", "failed"}
          /\ Terminated(c) => Cardinality(Outcomes(c)) = 1
          /\ ~Terminated(c) => Outcomes(c) = {}
          /\ pc[c] = "done" => error[c] = NoError /\ result[c] # NoResult
          /\ pc[c] = "failed" => error[c] # NoError /\ result[c] = NoResult
          /\ pc[c] # "done" => result[c] = NoResult
          /\ (pc[c] = "done" /\ operationSpec[c].requestBody # "absent")
             => Len(parseLog[c]) = 1 /\ selected[c] = parseLog[c][1])
  /\ [][\A c \in Calls :
          Terminated(c) => /\ pc'[c] = pc[c]
                           /\ result'[c] = result[c]
                           /\ error'[c] = error[c]]_vars

\* a call has returned the body decoded by the one parser it invoked
C20_Witness ==
  \E c \in SingleCall :
    /\ Outcomes(c) = {"done"}
    /\ parseLog[c] = << selected[c] >>
    /\ "value" \in DOMAIN result[c]
    /\ result[c].value \in BodyValues

=============================================================================
